---- MODULE Spec2Model ----
(***************************************************************************)
(* diffcount: count bit and byte differences between two files, or between *)
(* a file and a constant byte (src/diffcount.c).                           *)
(*                                                                         *)
(* The model follows main() -> diffcount() -> print_results().  The two    *)
(* sources are files of the environment (a length and a byte pattern), the *)
(* stdio streams keep a position, and the environment decides the outcome  *)
(* of every library call that can fail: fopen, fseeko, malloc, fread and   *)
(* stat.  A 64-bit word is a vector of 64 bits, a byte is a number 0..255. *)
(***************************************************************************)
EXTENDS Integers, Sequences, FiniteSets, TLC

(* ------------------------------------------------------------------ *)
(* Bounds of the model                                                 *)
(* ------------------------------------------------------------------ *)

\* Size of the two working buffers.  The source takes it from the build
\* (#ifndef BUFSIZE ... #define BUFSIZE 512*64); the model builds with a small
\* one so that sources longer than one buffer stay small.
BUFSIZE == 12

\* Longest generic source file, in bytes.
MaxFileLen == 14

\* Most fread calls of one run that end in a read error.
MaxFaults == 1

(* ------------------------------------------------------------------ *)
(* Bytes, bits and 64-bit words                                        *)
(* ------------------------------------------------------------------ *)

Min(a, b) == IF a < b THEN a ELSE b

Pow2(k) == CASE k = 0 -> 1 [] k = 1 -> 2 [] k = 2 -> 4 [] k = 3 -> 8
             [] k = 4 -> 16 [] k = 5 -> 32 [] k = 6 -> 64 [] k = 7 -> 128

\* Bit k (0 = least significant) of the byte b.
Bit(b, k) == (b \div Pow2(k)) % 2

\* byte_xor = buf_1[buf_idx] ^ buf_2[buf_idx]
Xor8(a, b) ==
    LET x(k) == ((Bit(a, k) + Bit(b, k)) % 2) * Pow2(k)
    IN  x(0) + x(1) + x(2) + x(3) + x(4) + x(5) + x(6) + x(7)

\* _mm_popcnt_u32 of a value that fits a byte.
Popcnt32(v) ==
    Bit(v, 0) + Bit(v, 1) + Bit(v, 2) + Bit(v, 3)
  + Bit(v, 4) + Bit(v, 5) + Bit(v, 6) + Bit(v, 7)

\* *(uint64_t *)(buf + idx): the 8 bytes at idx as one little-endian word,
\* bit j of the word being bit j % 8 of byte idx + j \div 8.
Load64(buf, idx) == [j \in 0..63 |-> Bit(buf[idx + (j \div 8)], j % 8)]

\* a ^ b on 64-bit words.
Xor64(a, b) == [j \in 0..63 |-> (a[j] + b[j]) % 2]

\* (q >> (8*i)) & 0xff
ShiftMask(q, i) ==
    LET x(k) == q[8 * i + k] * Pow2(k)
    IN  x(0) + x(1) + x(2) + x(3) + x(4) + x(5) + x(6) + x(7)

RECURSIVE SumBits(_, _)
SumBits(q, j) == IF j < 0 THEN 0 ELSE q[j] + SumBits(q, j - 1)

\* A 32-bit population count applied to the word: the upper half is lost.
Popcnt64Low32(q) == SumBits(q, 31)

\* _mm_popcnt_u64(q)
Popcnt64(q) == SumBits(q, 63)

RECURSIVE QuadDiffBytesFrom(_, _)
QuadDiffBytesFrom(q, i) ==
    IF i >= 8 THEN 0
    ELSE (IF ShiftMask(q, i) # 0 THEN 1 ELSE 0) + QuadDiffBytesFrom(q, i + 1)

\* The byte counter fed with the bit count of the word.
QuadDiffBytesAsBits(q) == Popcnt64(q)

\* for (int i = 0; i < 8; i++) diff_B += (((quad_xor >> (8*i)) & 0xff) != 0);
QuadDiffBytes(q) == QuadDiffBytesFrom(q, 0)

(* ------------------------------------------------------------------ *)
(* The environment: files and configurations                           *)
(* ------------------------------------------------------------------ *)

\* Byte i of a file of the given pattern.
ByteAt(f, i) ==
    CASE f.pat = "zeros" -> 0
      [] f.pat = "ones"  -> 255
      [] f.pat = "ramp"  -> (i * 73 + 5) % 256

\* Bytes a stream at position pos can still deliver; an endless source
\* (a device such as /dev/zero) always fills the request.
Remaining(f, pos, want) ==
    IF f.endless THEN want
    ELSE IF pos >= f.len THEN 0 ELSE Min(want, f.len - pos)

NoFile == [len |-> 0, pat |-> "zeros", endless |-> FALSE]

File(n, p) == [len |-> n, pat |-> p, endless |-> FALSE]

\* Values of -n; 0 is the default of diffcount_ctl_init.
MaxLenChoices == {0, 3, BUFSIZE + 2}

\* seek1, seek2 of the command line.
SeekChoices == {<<0, 0>>, <<3, 0>>, <<0, 3>>}

\* File 2 is shorter than file 1, as long, or longer.
LenDeltas == {-4, 0, 2}

\* The contents of file 1 and file 2: equal, complementary, unrelated.
PatternPairs == {<<"ramp", "ramp">>, <<"ones", "zeros">>, <<"ramp", "zeros">>}

\* Byte counts an fread that hits a read error may still return.
ShortCounts == {0, 9}

\* What malloc'ed memory may hold before it is written.
JunkBytes == {0, 165}

Ctl(s1, s2, ml, cm, cv) ==
    [seek_1 |-> s1, seek_2 |-> s2, max_len |-> ml, const_mode |-> cm,
     const_val |-> cv]

FileConfigsOf(n) ==
    { [f1 |-> File(n, p[1]), f2 |-> File(n + d, p[2]),
       dc |-> Ctl(s[1], s[2], ml, 0, 0)] :
      d \in {x \in LenDeltas : n + x >= 0},
      p \in PatternPairs, s \in SeekChoices, ml \in MaxLenChoices }

FileConfigs == UNION { FileConfigsOf(n) : n \in 0..MaxFileLen }

ConstConfigs ==
    { [f1 |-> File(n, p), f2 |-> NoFile, dc |-> Ctl(s, 0, ml, 1, cv)] :
      n \in 0..MaxFileLen, p \in {"ramp", "ones"},
      s \in {0, 3}, ml \in MaxLenChoices, cv \in {15, 0} }

\* An endless file 1 (a device): only a bounded comparison of it ends.
EndlessConfigs ==
    { [f1 |-> [len |-> 0, pat |-> "ramp", endless |-> TRUE], f2 |-> NoFile,
       dc |-> Ctl(0, 0, ml, 1, cv)] :
      ml \in MaxLenChoices \ {0}, cv \in {15, 0} }

\* Two identical 100-byte files compared over at most 40 bytes.
LongConfigs ==
    { [f1 |-> File(100, "ramp"), f2 |-> File(100, "ramp"),
       dc |-> Ctl(0, 0, 40, 0, 0)] }

Configs == FileConfigs \cup ConstConfigs \cup EndlessConfigs \cup LongConfigs

VARIABLES
    file_1, file_2,   \* the files named by dc->fname_1, dc->fname_2
    dc,               \* struct diffcount_ctl
    pc,               \* position in main()/diffcount()
    stream_1, stream_2,
    buf_1, buf_2, mem_1, mem_2,
    buf_idx, buf_fill, read_size,
    comp_B, diff_B, diff_b,
    access,           \* the last load from the buffers: index and width
    dr,               \* struct diffcount_res, or NULL
    printed,
    faults, failures

vars == <<file_1, file_2, dc, pc, stream_1, stream_2, buf_1, buf_2, mem_1,
          mem_2, buf_idx, buf_fill, read_size, comp_B, diff_B, diff_b,
          access, dr, printed, faults, failures>>

NULL == [st |-> "null", pos |-> 0]
NoBuf == [i \in {} |-> 0]
NoRes == [comp_B |-> 0, comp_b |-> 0, diff_B |-> 0, diff_b |-> 0, set |-> FALSE]

Init ==
    /\ \E c \in Configs : file_1 = c.f1 /\ file_2 = c.f2 /\ dc = c.dc
    /\ pc = "open1"
    /\ stream_1 = NULL /\ stream_2 = NULL
    /\ buf_1 = NoBuf /\ buf_2 = NoBuf
    /\ mem_1 = "none" /\ mem_2 = "none"
    /\ buf_idx = 0 /\ buf_fill = 0 /\ read_size = 0
    /\ comp_B = 0 /\ diff_B = 0 /\ diff_b = 0
    /\ access = [idx |-> 0, w |-> 0]
    /\ dr = NoRes
    /\ printed = FALSE
    /\ faults = 0 /\ failures = {}

(* ------------------------------------------------------------------ *)
(* fopen_and_seek, malloc_or_die                                       *)
(* ------------------------------------------------------------------ *)

\* exit(EXIT_FAILURE): the process ends where it stands; nothing the caller
\* holds is released by the program before it.
Die(why) ==
    /\ pc' = "failed"
    /\ failures' = failures \cup {why}

AfterOpen1 == IF dc.const_mode = 0 THEN "open2" ELSE "malloc1"

\* stream_1 = fopen_and_seek(dc->fname_1, dc->seek_1), both calls succeeding.
Open1 ==
    /\ pc = "open1"
    /\ stream_1' = [st |-> "open", pos |-> dc.seek_1]
    /\ pc' = AfterOpen1
    /\ UNCHANGED <<file_1, file_2, dc, stream_2, buf_1, buf_2, mem_1, mem_2,
                   buf_idx, buf_fill, read_size, comp_B, diff_B, diff_b,
                   access, dr, printed, faults, failures>>

\* fopen returns NULL.
Open1FopenFails ==
    /\ pc = "open1"
    /\ Die("fopen")
    /\ UNCHANGED <<file_1, file_2, dc, stream_1, stream_2, buf_1, buf_2,
                   mem_1, mem_2, buf_idx, buf_fill, read_size, comp_B, diff_B,
                   diff_b, access, dr, printed, faults>>

\* fopen succeeds, fseeko returns -1.
Open1FseekoFails ==
    /\ pc = "open1"
    /\ stream_1' = [st |-> "open", pos |-> 0]
    /\ Die("fseeko")
    /\ UNCHANGED <<file_1, file_2, dc, stream_2, buf_1, buf_2, mem_1, mem_2,
                   buf_idx, buf_fill, read_size, comp_B, diff_B, diff_b,
                   access, dr, printed, faults>>

\* if (dc->const_mode == 0) stream_2 = fopen_and_seek(dc->fname_2, dc->seek_2)
Open2 ==
    /\ pc = "open2"
    /\ stream_2' = [st |-> "open", pos |-> dc.seek_2]
    /\ pc' = "malloc1"
    /\ UNCHANGED <<file_1, file_2, dc, stream_1, buf_1, buf_2, mem_1, mem_2,
                   buf_idx, buf_fill, read_size, comp_B, diff_B, diff_b,
                   access, dr, printed, faults, failures>>

Open2FopenFails ==
    /\ pc = "open2"
    /\ Die("fopen")
    /\ UNCHANGED <<file_1, file_2, dc, stream_1, stream_2, buf_1, buf_2,
                   mem_1, mem_2, buf_idx, buf_fill, read_size, comp_B, diff_B,
                   diff_b, access, dr, printed, faults>>

Open2FseekoFails ==
    /\ pc = "open2"
    /\ stream_2' = [st |-> "open", pos |-> 0]
    /\ Die("fseeko")
    /\ UNCHANGED <<file_1, file_2, dc, stream_1, buf_1, buf_2, mem_1, mem_2,
                   buf_idx, buf_fill, read_size, comp_B, diff_B, diff_b,
                   access, dr, printed, faults>>

\* Fresh memory of BUFSIZE bytes: its content is whatever the heap held.
Fresh(junk) == [i \in 0..(BUFSIZE - 1) |-> junk]

\* buf_1 = malloc_or_die(BUFSIZE)
Malloc1 ==
    /\ pc = "malloc1"
    /\ \E junk \in JunkBytes : buf_1' = Fresh(junk)
    /\ mem_1' = "live"
    /\ pc' = "malloc2"
    /\ UNCHANGED <<file_1, file_2, dc, stream_1, stream_2, buf_2, mem_2,
                   buf_idx, buf_fill, read_size, comp_B, diff_B, diff_b,
                   access, dr, printed, faults, failures>>

Malloc1Fails ==
    /\ pc = "malloc1"
    /\ Die("malloc")
    /\ UNCHANGED <<file_1, file_2, dc, stream_1, stream_2, buf_1, buf_2,
                   mem_1, mem_2, buf_idx, buf_fill, read_size, comp_B, diff_B,
                   diff_b, access, dr, printed, faults>>

\* A memset over sizeof(buf_2), the size of the pointer, not of the buffer.
MemsetPointerSize(buf, val) == [i \in DOMAIN buf |-> IF i < 8 THEN val ELSE buf[i]]

\* memset(buf_2, dc->const_val, BUFSIZE)
Memset(buf, val) == [i \in DOMAIN buf |-> val]

\* buf_2 = malloc_or_die(BUFSIZE), then the constant fill of constant mode,
\* then buf_fill = 0; buf_idx = 0.
Malloc2 ==
    /\ pc = "malloc2"
    /\ \E junk \in JunkBytes :
          buf_2' = IF dc.const_mode = 1
                   THEN Memset(Fresh(junk), dc.const_val)
                   ELSE Fresh(junk)
    /\ mem_2' = "live"
    /\ buf_fill' = 0
    /\ buf_idx' = 0
    /\ pc' = "loop"
    /\ UNCHANGED <<file_1, file_2, dc, stream_1, stream_2, buf_1, mem_1,
                   read_size, comp_B, diff_B, diff_b, access, dr, printed,
                   faults, failures>>

Malloc2Fails ==
    /\ pc = "malloc2"
    /\ Die("malloc")
    /\ UNCHANGED <<file_1, file_2, dc, stream_1, stream_2, buf_1, buf_2,
                   mem_1, mem_2, buf_idx, buf_fill, read_size, comp_B, diff_B,
                   diff_b, access, dr, printed, faults>>

(* ------------------------------------------------------------------ *)
(* fill_buffers                                                        *)
(* ------------------------------------------------------------------ *)

\* A read size that ignores max_len.
ReadSizeUnbounded(max_len, bytes_compared) == BUFSIZE

\* read_size of fill_buffers.  max_len - bytes_compared is unsigned: were
\* bytes_compared ever above max_len the difference would wrap to a huge
\* value, which is not below BUFSIZE.
ReadSize(max_len, bytes_compared) ==
    IF max_len # 0 /\ bytes_compared <= max_len
                   /\ max_len - bytes_compared < BUFSIZE
    THEN max_len - bytes_compared
    ELSE BUFSIZE

\* The outcomes of fread(buf, 1, want, stream): all the bytes asked for, or
\* all the bytes left before end-of-file; or, on a read error, fewer bytes
\* than that (the error indicator is set, and nobody looks at it).
FreadOutcomes(f, pos, want, mayFail) ==
    LET full == Remaining(f, pos, want)
    IN  {[n |-> full, err |-> FALSE]}
        \cup (IF mayFail
              THEN {[n |-> k, err |-> TRUE] : k \in {c \in ShortCounts : c < full}}
              ELSE {})

\* The buffer after fread stored n bytes read at pos.
Stored(buf, f, pos, n) ==
    [i \in DOMAIN buf |-> IF i < n THEN ByteAt(f, pos + i) ELSE buf[i]]

\* The greater of the two fread results instead of the lesser.
BufFillLonger(const_mode, buf1_fill, buf2_fill) ==
    IF const_mode = 1 THEN buf1_fill
    ELSE IF buf1_fill > buf2_fill THEN buf1_fill ELSE buf2_fill

\* buf_fill of fill_buffers from the two fread results.
BufFill(const_mode, buf1_fill, buf2_fill) ==
    IF const_mode = 1 THEN buf1_fill
    ELSE IF buf1_fill < buf2_fill THEN buf1_fill ELSE buf2_fill

\* Leaving the loop on a round too short for a word.
LoopDoneEarly(fill) == fill < 8

\* if (buf_fill == 0) break;
LoopDone(fill) == fill = 0

Errs(o) == IF o.err THEN 1 ELSE 0

\* if (buf_idx == buf_fill) { buf_fill = fill_buffers(...);
\*                            if (buf_fill == 0) break; buf_idx = 0; }
FillBuffers ==
    /\ pc = "loop"
    /\ buf_idx = buf_fill
    /\ LET rs == ReadSize(dc.max_len, comp_B)
       IN \E o1 \in FreadOutcomes(file_1, stream_1.pos, rs, faults < MaxFaults) :
          \E o2 \in IF dc.const_mode = 1
                    THEN {[n |-> 0, err |-> FALSE]}
                    ELSE FreadOutcomes(file_2, stream_2.pos, rs,
                                       faults + Errs(o1) < MaxFaults) :
            LET fill == BufFill(dc.const_mode, o1.n, o2.n)
            IN /\ read_size' = rs
               /\ buf_1' = Stored(buf_1, file_1, stream_1.pos, o1.n)
               /\ stream_1' = [stream_1 EXCEPT !.pos = @ + o1.n]
               /\ IF dc.const_mode = 1
                  THEN UNCHANGED <<buf_2, stream_2>>
                  ELSE /\ buf_2' = Stored(buf_2, file_2, stream_2.pos, o2.n)
                       /\ stream_2' = [stream_2 EXCEPT !.pos = @ + o2.n]
               /\ faults' = faults + Errs(o1) + Errs(o2)
               /\ failures' = IF o1.err \/ o2.err
                              THEN failures \cup {"fread"} ELSE failures
               /\ buf_fill' = fill
               /\ IF LoopDone(fill)
                  THEN pc' = "close" /\ UNCHANGED buf_idx
                  ELSE pc' = "loop" /\ buf_idx' = 0
    /\ UNCHANGED <<file_1, file_2, dc, mem_1, mem_2, comp_B, diff_B, diff_b,
                   access, dr, printed>>

(* ------------------------------------------------------------------ *)
(* The comparison: 8 bytes at a time, then single bytes                *)
(* ------------------------------------------------------------------ *)

\* The word branch taken with only 7 bytes left.
AtLeast7Left(fill, idx) == IF idx <= fill THEN fill - idx >= 7 ELSE TRUE

\* (buf_fill - buf_idx) >= 8 on unsigned long long: a difference that wraps is
\* huge.
AtLeast8Left(fill, idx) == IF idx <= fill THEN fill - idx >= 8 ELSE TRUE

CompareQuad ==
    /\ pc = "loop"
    /\ buf_idx # buf_fill
    /\ AtLeast8Left(buf_fill, buf_idx)
    /\ LET quad_xor == Xor64(Load64(buf_1, buf_idx), Load64(buf_2, buf_idx))
       IN /\ diff_B' = diff_B + QuadDiffBytes(quad_xor)
          /\ diff_b' = diff_b + Popcnt64(quad_xor)
    /\ access' = [idx |-> buf_idx, w |-> 8]
    /\ buf_idx' = buf_idx + 8
    /\ comp_B' = comp_B + 8
    /\ UNCHANGED <<file_1, file_2, dc, pc, stream_1, stream_2, buf_1, buf_2,
                   mem_1, mem_2, buf_fill, read_size, dr, printed, faults,
                   failures>>

CompareByte ==
    /\ pc = "loop"
    /\ buf_idx # buf_fill
    /\ ~AtLeast8Left(buf_fill, buf_idx)
    /\ LET byte_xor == Xor8(buf_1[buf_idx], buf_2[buf_idx])
       IN /\ diff_B' = diff_B + (IF byte_xor # 0 THEN 1 ELSE 0)
          /\ diff_b' = diff_b + Popcnt32(byte_xor)
    /\ access' = [idx |-> buf_idx, w |-> 1]
    /\ buf_idx' = buf_idx + 1
    /\ comp_B' = comp_B + 1
    /\ UNCHANGED <<file_1, file_2, dc, pc, stream_1, stream_2, buf_1, buf_2,
                   mem_1, mem_2, buf_fill, read_size, dr, printed, faults,
                   failures>>

(* ------------------------------------------------------------------ *)
(* The end of diffcount(), and print_results                           *)
(* ------------------------------------------------------------------ *)

\* fclose(stream_1); if (stream_2 != NULL) fclose(stream_2);
\* free(buf_1); free(buf_2);
Close ==
    /\ pc = "close"
    /\ stream_1' = [stream_1 EXCEPT !.st = "closed"]
    /\ stream_2' = IF stream_2.st # "null"
                   THEN [stream_2 EXCEPT !.st = "closed"] ELSE stream_2
    /\ mem_1' = "freed"
    /\ mem_2' = "freed"
    /\ pc' = "result"
    /\ UNCHANGED <<file_1, file_2, dc, buf_1, buf_2, buf_idx, buf_fill,
                   read_size, comp_B, diff_B, diff_b, access, dr, printed,
                   faults, failures>>

\* dr = malloc_or_die(...); dr->comp_B = comp_B; dr->comp_b = 8*comp_B; ...
Result ==
    /\ pc = "result"
    /\ dr' = [comp_B |-> comp_B, comp_b |-> 8 * comp_B,
              diff_B |-> diff_B, diff_b |-> diff_b, set |-> TRUE]
    /\ pc' = "print"
    /\ UNCHANGED <<file_1, file_2, dc, stream_1, stream_2, buf_1, buf_2,
                   mem_1, mem_2, buf_idx, buf_fill, read_size, comp_B, diff_B,
                   diff_b, access, printed, faults, failures>>

ResultMallocFails ==
    /\ pc = "result"
    /\ Die("malloc")
    /\ UNCHANGED <<file_1, file_2, dc, stream_1, stream_2, buf_1, buf_2,
                   mem_1, mem_2, buf_idx, buf_fill, read_size, comp_B, diff_B,
                   diff_b, access, dr, printed, faults>>

\* print_results(dc, dr), every stat succeeding; then main returns 0.
PrintResults ==
    /\ pc = "print"
    /\ printed' = TRUE
    /\ pc' = "exit0"
    /\ UNCHANGED <<file_1, file_2, dc, stream_1, stream_2, buf_1, buf_2,
                   mem_1, mem_2, buf_idx, buf_fill, read_size, comp_B, diff_B,
                   diff_b, access, dr, faults, failures>>

\* get_filesize: stat returns -1, before anything is printed.
PrintStatFails ==
    /\ pc = "print"
    /\ Die("stat")
    /\ UNCHANGED <<file_1, file_2, dc, stream_1, stream_2, buf_1, buf_2,
                   mem_1, mem_2, buf_idx, buf_fill, read_size, comp_B, diff_B,
                   diff_b, access, dr, printed, faults>>

Next ==
    \/ Open1 \/ Open1FopenFails \/ Open1FseekoFails
    \/ Open2 \/ Open2FopenFails \/ Open2FseekoFails
    \/ Malloc1 \/ Malloc1Fails \/ Malloc2 \/ Malloc2Fails
    \/ FillBuffers \/ CompareQuad \/ CompareByte
    \/ Close \/ Result \/ ResultMallocFails
    \/ PrintResults \/ PrintStatFails

Spec == Init /\ [][Next]_vars

\* The program is sequential: whenever a step is possible, one is taken.
FairSpec == Spec /\ WF_vars(Next)

(* ------------------------------------------------------------------ *)
(* Reference definitions for the properties                            *)
(* ------------------------------------------------------------------ *)

\* Byte i of source A / source B, counted from the starting offsets.
SrcA(i) == ByteAt(file_1, dc.seek_1 + i)
SrcB(i) == IF dc.const_mode = 1 THEN dc.const_val
           ELSE ByteAt(file_2, dc.seek_2 + i)

\* Number of bit positions in which two bytes differ.
BitsDiffering(a, b) == Cardinality({k \in 0..7 : Bit(a, k) # Bit(b, k)})

RECURSIVE NaiveDiffBits(_)
NaiveDiffBits(n) ==
    IF n = 0 THEN 0
    ELSE BitsDiffering(SrcA(n - 1), SrcB(n - 1)) + NaiveDiffBits(n - 1)

NaiveDiffBytes(n) == Cardinality({i \in 0..(n - 1) : SrcA(i) # SrcB(i)})

RECURSIVE BufDiffBits(_, _)
BufDiffBits(from, n) ==
    IF n = 0 THEN 0
    ELSE BitsDiffering(buf_1[from + n - 1], buf_2[from + n - 1])
         + BufDiffBits(from, n - 1)

BufDiffBytes(from, n) ==
    Cardinality({i \in from..(from + n - 1) : buf_1[i] # buf_2[i]})

\* The comparison loop has been left.
LoopExited == pc = "close" \/ mem_1 = "freed"

ReadFailed == "fread" \in failures

\* Bytes of each source from its starting offset on.
ExtentA == IF file_1.len > dc.seek_1 THEN file_1.len - dc.seek_1 ELSE 0
ExtentB == IF file_2.len > dc.seek_2 THEN file_2.len - dc.seek_2 ELSE 0

Extents ==
    (IF file_1.endless THEN {} ELSE {ExtentA})
    \cup (IF dc.const_mode = 0 THEN {ExtentB} ELSE {})
    \cup (IF dc.max_len # 0 THEN {dc.max_len} ELSE {})

ShortestExtent == CHOOSE e \in Extents : \A x \in Extents : e <= x

EofAtStart ==
    \/ ~file_1.endless /\ ExtentA = 0
    \/ dc.const_mode = 0 /\ ExtentB = 0

(* ------------------------------------------------------------------ *)
(* C1                                                                  *)
(* ------------------------------------------------------------------ *)

C1_Totals ==
    (~ReadFailed \/ dc.const_mode = 1) =>
        /\ diff_B = NaiveDiffBytes(comp_B)
        /\ diff_b = NaiveDiffBits(comp_B)

C1_Step ==
    comp_B' # comp_B =>
        /\ diff_B' - diff_B = BufDiffBytes(buf_idx, comp_B' - comp_B)
        /\ diff_b' - diff_b = BufDiffBits(buf_idx, comp_B' - comp_B)

\* C1: the counts of the loop (8-byte XOR words, then single bytes) are those
\* of a byte-by-byte comparison of the same bytes: every step adds to diff_B
\* the number of differing bytes, and to diff_b the number of differing bits,
\* among the buffer bytes it consumed; and over a run whose compared bytes are
\* the sources' bytes in order, the totals are those of the first comp_B
\* bytes of the two sources.
C1_ChunkedEqualsNaive == []C1_Totals /\ [][C1_Step]_vars

\* C1 witness: several rounds, the last one ending on single bytes after a
\* word, with differences counted.
C1_Witness ==
    /\ pc = "close" /\ comp_B > BUFSIZE /\ comp_B % 8 # 0
    /\ access.w = 1 /\ diff_b > 0 /\ diff_b < 8 * comp_B

(* ------------------------------------------------------------------ *)
(* C2                                                                  *)
(* ------------------------------------------------------------------ *)

\* C2: the accumulators keep diff_B <= comp_B and diff_b <= 8*comp_B in every
\* state, and the result record has comp_b = 8*comp_B, 0 <= diff_B <= comp_B
\* and 0 <= diff_b <= 8*comp_B.
C2_ResultInvariants ==
    /\ 0 <= diff_B /\ diff_B <= comp_B
    /\ 0 <= diff_b /\ diff_b <= 8 * comp_B
    /\ dr.set =>
        /\ dr.comp_B = comp_B
        /\ dr.comp_b = 8 * dr.comp_B
        /\ 0 <= dr.diff_B /\ dr.diff_B <= dr.comp_B
        /\ 0 <= dr.diff_b /\ dr.diff_b <= 8 * dr.comp_B

\* C2 witness: a result at the upper limits, every compared bit differing.
C2_Witness ==
    /\ dr.set /\ dr.comp_B > 8
    /\ dr.diff_B = dr.comp_B /\ dr.diff_b = dr.comp_b

(* ------------------------------------------------------------------ *)
(* C3                                                                  *)
(* ------------------------------------------------------------------ *)

\* C3: comp_B never exceeds a nonzero max_len; and when no fread came back
\* short of the bytes available, the final comp_B is the shortest of: the
\* bytes of A after seek_1, the bytes of B after seek_2 (file mode), max_len
\* (when nonzero).
C3_ComparedExtent ==
    /\ dc.max_len # 0 => comp_B <= dc.max_len
    /\ (LoopExited /\ ~ReadFailed) => comp_B = ShortestExtent

\* C3 witness: two 100-byte files with a bound of 40 give 40, over four rounds.
C3_Witness ==
    /\ LoopExited /\ ~ReadFailed
    /\ file_1.len = 100 /\ file_2.len = 100 /\ dc.max_len = 40
    /\ comp_B = 40

(* ------------------------------------------------------------------ *)
(* C4                                                                  *)
(* ------------------------------------------------------------------ *)

\* C4 as stated: a max_len of 0, or a source at end-of-stream at its starting
\* offset, gives comp_B = 0 (and no differences).
C4_Original ==
    (LoopExited /\ (dc.max_len = 0 \/ EofAtStart)) =>
        comp_B = 0 /\ diff_B = 0 /\ diff_b = 0

\* C4 amended: a source at end-of-stream at its starting offset gives
\* comp_B = 0 and no differences, whatever the other source holds; a max_len
\* of 0 is no bound, the comparison then runs to the first end-of-stream.
C4_EmptyOverlap ==
    /\ (LoopExited /\ EofAtStart) => comp_B = 0 /\ diff_B = 0 /\ diff_b = 0
    /\ (LoopExited /\ dc.max_len = 0 /\ ~ReadFailed) =>
           comp_B = IF dc.const_mode = 1 THEN ExtentA
                    ELSE Min(ExtentA, ExtentB)

\* C4 witness: file 2 is at end-of-file at its offset, file 1 is not.
C4_Witness ==
    /\ LoopExited /\ dc.const_mode = 0
    /\ ExtentB = 0 /\ ExtentA > 0 /\ comp_B = 0

(* ------------------------------------------------------------------ *)
(* C5                                                                  *)
(* ------------------------------------------------------------------ *)

C5_ConstState ==
    dc.const_mode = 1 =>
        /\ mem_2 # "none" => \A i \in DOMAIN buf_2 : buf_2[i] = dc.const_val
        /\ diff_B = Cardinality({i \in 0..(comp_B - 1) : SrcA(i) # dc.const_val})
        /\ diff_b = NaiveDiffBits(comp_B)

C5_Frame == (dc.const_mode = 1 /\ mem_2 # "none") => buf_2' = buf_2

\* C5: in constant mode buf_2 holds the constant in every byte from its
\* allocation on and no later step writes to it; diff_B and diff_b count the
\* compared bytes of A against the constant.
C5_ConstantMode == []C5_ConstState /\ [][C5_Frame]_vars

\* C5 witness: five 0xFF bytes against 0x0F: 5 bytes, 20 bits differ.
C5_Witness ==
    /\ pc = "exit0" /\ dc.const_mode = 1 /\ dc.const_val = 15
    /\ file_1 = File(5, "ones") /\ dc.seek_1 = 0
    /\ dr.comp_B = 5 /\ dr.diff_B = 5 /\ dr.diff_b = 20

(* ------------------------------------------------------------------ *)
(* C6                                                                  *)
(* ------------------------------------------------------------------ *)

\* C6: every I/O failure is fatal: after a failed open or seek no read has
\* been performed (the buffers do not exist yet), and a run in which an open,
\* a seek or a read failed produces no result record and prints nothing.
C6_IOFailuresFatal ==
    /\ ("fopen" \in failures \/ "fseeko" \in failures) =>
           mem_1 = "none" /\ mem_2 = "none" /\ pc = "failed"
    /\ (failures \cap {"fopen", "fseeko", "fread"} # {}) =>
           ~dr.set /\ ~printed /\ pc # "exit0"

(* ------------------------------------------------------------------ *)
(* C7                                                                  *)
(* ------------------------------------------------------------------ *)

\* C7: once the comparison call is over, by return or by a fatal exit, every
\* stream it opened has been closed and every buffer it allocated freed.
C7_AllReleased ==
    pc \in {"failed", "result", "print", "exit0"} =>
        /\ stream_1.st # "open" /\ stream_2.st # "open"
        /\ mem_1 # "live" /\ mem_2 # "live"

(* ------------------------------------------------------------------ *)
(* C8                                                                  *)
(* ------------------------------------------------------------------ *)

\* C8: in file mode, in every round, buf_1[i] and buf_2[i] for i below the
\* usable length hold the bytes of their sources at the same distance from
\* the starting offsets: the compared bytes before the round, plus i.
C8_BuffersAligned ==
    (pc = "loop" /\ dc.const_mode = 0) =>
        \A i \in 0..(buf_fill - 1) :
            /\ buf_1[i] = SrcA(comp_B - buf_idx + i)
            /\ buf_2[i] = SrcB(comp_B - buf_idx + i)

(* ------------------------------------------------------------------ *)
(* C9                                                                  *)
(* ------------------------------------------------------------------ *)

Terminated == pc \in {"exit0", "failed"}

C9_Exit ==
    /\ (pc = "loop" /\ pc' # "loop") =>
           pc' = "close" /\ buf_fill' = 0 /\ buf_idx = buf_fill
    /\ (pc = "loop" /\ (read_size' # read_size \/ stream_1' # stream_1
                        \/ buf_fill' # buf_fill)) => buf_idx = buf_fill

\* C9: the run terminates; the loop is left only by a refill that yields no
\* usable byte, and a refill happens only when every usable byte of the
\* round before has been compared.
C9_Termination == <>Terminated /\ [][C9_Exit]_vars

\* C9 witness: a run of several rounds that ended.
C9_Witness == pc = "exit0" /\ comp_B > 2 * BUFSIZE /\ buf_fill = 0

(* ------------------------------------------------------------------ *)
(* C10                                                                 *)
(* ------------------------------------------------------------------ *)

C10_Indices ==
    pc = "loop" =>
        /\ 0 <= buf_idx /\ buf_idx <= buf_fill
        /\ buf_fill <= read_size /\ read_size <= BUFSIZE

C10_Load ==
    comp_B' # comp_B =>
        /\ access'.idx = buf_idx /\ access'.w = comp_B' - comp_B
        /\ access'.w = 8 => buf_idx + 8 <= buf_fill
        /\ access'.w = 1 => buf_idx < buf_fill
        /\ access'.idx + access'.w <= buf_fill
        /\ buf_idx' = buf_idx + access'.w /\ buf_idx' <= buf_fill

\* C10: inside the loop 0 <= buf_idx <= buf_fill <= read_size <= BUFSIZE; a
\* word is loaded only with 8 bytes left in the round and a byte only with one
\* left, so no load reaches the usable length, and buf_idx never steps over
\* buf_fill.
C10_IndexSafety == []C10_Indices /\ [][C10_Load]_vars

\* C10 witness: a short round after a full one, the buffer still holding the
\* stale bytes of the full round beyond the usable length.
C10_Witness ==
    /\ pc = "loop" /\ comp_B > BUFSIZE /\ buf_fill < 8 /\ buf_idx = buf_fill
    /\ buf_fill > 0 /\ access.w = 1
    /\ buf_1[buf_fill] # buf_2[buf_fill]
====
